---- MODULE Spec2Model ----
(***************************************************************************)
(* MailSmith.AI backend (server.py): the AI proxy endpoints               *)
(* /api/generate and /api/enhance, and the review store behind            *)
(* GET/POST /api/reviews, which keeps its collection in reviews.json.      *)
(*                                                                         *)
(* Handlers run on worker threads (Flask's server is threaded), so the     *)
(* steps of post_review that touch reviews.json (load, open-for-write,     *)
(* dump) are separate actions that interleave with other requests.         *)
(***************************************************************************)
EXTENDS Integers, Sequences, FiniteSets, TLC

(* ---------------- bounds of the model ---------------- *)

\* requests accepted over a run
MaxRequests == 3
\* worker threads handling requests at the same time
NumWorkers == 2

(* ---------------- program constants ---------------- *)

\* timeout=60 of the upstream call
UPSTREAM_TIMEOUT == 60
\* int(time.time() * 1000): the id is in milliseconds, the timestamp in seconds
MS_PER_SECOND == 1000
\* data.get('rating', 5)
DEFAULT_RATING == 5
\* max(1, min(5, ...))
RATING_MIN == 1
RATING_MAX == 5

Workers == 1..NumWorkers

(* ---------------- JSON values ---------------- *)
(* A string is a sequence of one-character strings, so that strip() and    *)
(* int() can be computed on it.  A JSON value is a record                   *)
(*   k: "null" | "num" | "str" | "arr" | "obj"                              *)
(*   n: the number, s: the string, a: the array's items (strings),          *)
(*   f: the object's fields (a function from field names to values).        *)

NoFields == [x \in {} |-> 0]

JNull == [k |-> "null", n |-> 0, s |-> <<>>, a |-> <<>>, f |-> NoFields]
JNum(n) == [k |-> "num", n |-> n, s |-> <<>>, a |-> <<>>, f |-> NoFields]
JStr(s) == [k |-> "str", n |-> 0, s |-> s, a |-> <<>>, f |-> NoFields]
JArr(a) == [k |-> "arr", n |-> 0, s |-> <<>>, a |-> a, f |-> NoFields]
JObj(f) == [k |-> "obj", n |-> 0, s |-> <<>>, a |-> <<>>, f |-> f]

sMessages == <<"m", "e", "s", "s", "a", "g", "e", "s">>
sAnonymous == <<"A", "n", "o", "n", "y", "m", "o", "u", "s">>

\* Python truthiness: None, 0, '', [] and {} are falsy
Truthy(v) ==
    CASE v.k = "null" -> FALSE
      [] v.k = "num" -> v.n # 0
      [] v.k = "str" -> v.s # <<>>
      [] v.k = "arr" -> v.a # <<>>
      [] v.k = "obj" -> DOMAIN v.f # {}
      [] OTHER -> FALSE

\* t occurs in s as a contiguous run: Python's `t in s` on strings
IsSubstring(t, s) ==
    \E i \in 0..(Len(s) - Len(t)) : SubSeq(s, i + 1, i + Len(t)) = t

\* dict.get(key): None when the key is absent
Get(data, key) == IF key \in DOMAIN data.f THEN data.f[key] ELSE JNull

\* dict.get(key, default)
GetDefault(data, key, default) ==
    IF key \in DOMAIN data.f THEN data.f[key] ELSE default

\* x or y
Or(x, y) == IF Truthy(x) THEN x ELSE y

(* ---------------- str.strip() and int() ---------------- *)

IsSpace(c) == c = " "

RECURSIVE LStrip(_)
LStrip(s) ==
    IF s # <<>> /\ IsSpace(Head(s)) THEN LStrip(Tail(s)) ELSE s

RECURSIVE RStrip(_)
RStrip(s) ==
    IF s # <<>> /\ IsSpace(s[Len(s)]) THEN RStrip(SubSeq(s, 1, Len(s) - 1)) ELSE s

Strip(s) == RStrip(LStrip(s))

Digits == {"0", "1", "2", "3", "4", "5", "6", "7", "8", "9"}

DigitValue(c) ==
    CASE c = "0" -> 0 [] c = "1" -> 1 [] c = "2" -> 2 [] c = "3" -> 3
      [] c = "4" -> 4 [] c = "5" -> 5 [] c = "6" -> 6 [] c = "7" -> 7
      [] c = "8" -> 8 [] c = "9" -> 9

RECURSIVE DigitsValue(_)
DigitsValue(s) ==
    IF s = <<>> THEN 0
    ELSE 10 * DigitsValue(SubSeq(s, 1, Len(s) - 1)) + DigitValue(s[Len(s)])

AllDigits(s) == s # <<>> /\ \A i \in 1..Len(s) : s[i] \in Digits

\* int(v): [ok, n]; not ok stands for the TypeError or ValueError int() raises
IntOf(v) ==
    CASE v.k = "num" -> [ok |-> TRUE, n |-> v.n]
      [] v.k = "str" ->
            LET t == Strip(v.s)
                neg == t # <<>> /\ Head(t) = "-"
                d == IF neg THEN Tail(t) ELSE t
            IN  IF AllDigits(d)
                THEN [ok |-> TRUE, n |-> IF neg THEN 0 - DigitsValue(d) ELSE DigitsValue(d)]
                ELSE [ok |-> FALSE, n |-> 0]
      [] OTHER -> [ok |-> FALSE, n |-> 0]

Min(a, b) == IF a < b THEN a ELSE b
Max(a, b) == IF a > b THEN a ELSE b

\* the clamp without its lower bound: min(5, n)
ClampNoFloor(n) == Min(RATING_MAX, n)

\* max(1, min(5, n))
Clamp(n) == Max(RATING_MIN, Min(RATING_MAX, n))

(* ---------------- post_review: normalisation ---------------- *)
(* Each field's expression gives [ok, ...]; not ok stands for the exception *)
(* the expression raises (AttributeError: .strip() of a non-string;         *)
(* TypeError / ValueError of int()).                                        *)

\* (data.get('name') or 'Anonymous').strip()
NameOf(data) ==
    LET v == Or(Get(data, "name"), JStr(sAnonymous))
    IN  IF v.k = "str" THEN [ok |-> TRUE, s |-> Strip(v.s)]
        ELSE [ok |-> FALSE, s |-> <<>>]

\* max(1, min(5, int(data.get('rating', 5))))
RatingOf(data) ==
    LET i == IntOf(GetDefault(data, "rating", JNum(DEFAULT_RATING)))
    IN  IF i.ok THEN [ok |-> TRUE, n |-> Clamp(i.n)] ELSE [ok |-> FALSE, n |-> 0]

\* (data.get('feedback') or '').strip()
FeedbackOf(data) ==
    LET v == Or(Get(data, "feedback"), JStr(<<>>))
    IN  IF v.k = "str" THEN [ok |-> TRUE, s |-> Strip(v.s)]
        ELSE [ok |-> FALSE, s |-> <<>>]

\* strftime('%Y-%m-%d %H:%M:%S'): the clock at one-second resolution
Strftime(ms) == ms \div MS_PER_SECOND

\* the review dict of post_review, built at clock reading t (milliseconds)
MakeReview(data, t) ==
    [id |-> t, name |-> NameOf(data).s, rating |-> RatingOf(data).n,
     feedback |-> FeedbackOf(data).s, timestamp |-> Strftime(t)]

\* building the dict raises: data is no dict (no .get), or a field's expression raises
ReviewRaises(data) ==
    \/ data.k # "obj"
    \/ ~NameOf(data).ok
    \/ ~RatingOf(data).ok
    \/ ~FeedbackOf(data).ok

\* reviews.append(review)
InsertTail(reviews, review) == Append(reviews, review)

\* reviews.insert(0, review)
InsertHead(reviews, review) == <<review>> \o reviews

(* ---------------- reviews.json ---------------- *)
(* file.kind: "absent"    no such file                                       *)
(*            "ioerror"   open() for reading raises IOError                  *)
(*            "badutf8"   bytes that are not UTF-8                           *)
(*            "garbage"   text that is not JSON                              *)
(*            "truncated" opened with mode 'w', nothing flushed yet          *)
(*            "nonarray"  JSON, but an object rather than an array           *)
(*            "array"     a JSON array, file.arr                             *)

File(kind, arr) == [kind |-> kind, arr |-> arr]

\* _load_reviews(): [raises, islist, arr].  json.load's result is returned
\* whatever its type; JSONDecodeError and IOError give []; UnicodeDecodeError
\* is neither and propagates.
LoadReviews(f) ==
    CASE f.kind = "array" -> [raises |-> FALSE, islist |-> TRUE, arr |-> f.arr]
      [] f.kind = "nonarray" -> [raises |-> FALSE, islist |-> FALSE, arr |-> <<>>]
      [] f.kind = "badutf8" -> [raises |-> TRUE, islist |-> FALSE, arr |-> <<>>]
      [] OTHER -> [raises |-> FALSE, islist |-> TRUE, arr |-> <<>>]

(* ---------------- requests ---------------- *)
(* Requests carry Content-Type: application/json, as the clients of this   *)
(* API send them.  Malformed is a body that is not JSON text (an empty     *)
(* body included): get_json() aborts the request with 400 Bad Request.     *)

Malformed == [k |-> "malformed", n |-> 0, s |-> <<>>, a |-> <<>>, f |-> NoFields]

Field(name, v) == name :> v

\* submissions that post_review stores
GoodReviewBodies ==
    { JObj(Field("name", JStr(<<" ", "a", " ">>)) @@ Field("rating", JNum(0))
             @@ Field("feedback", JStr(<<" ", "b">>))),
      JObj(Field("name", JStr(<<" ">>)) @@ Field("rating", JNum(99))),
      JObj(Field("name", JStr(<<>>)) @@ Field("rating", JNum(-3))),
      JObj(Field("feedback", JStr(<<"b">>))),
      JObj(Field("name", JNull) @@ Field("rating", JNum(3))) }

\* submissions that post_review answers with an error
BadReviewBodies ==
    { Malformed, JNull, JObj(NoFields), JArr(<<>>), JArr(<<<<"a">>>>),
      JStr(<<"a">>), JNum(5),
      JObj(Field("rating", JNull)),
      JObj(Field("rating", JStr(<<"a">>))),
      JObj(Field("name", JNum(7))) }

ReviewBodies == GoodReviewBodies \cup BadReviewBodies

AiBodies ==
    { Malformed, JNull, JObj(NoFields), JObj(Field("prompt", JStr(<<"a">>))),
      JObj(Field("messages", JArr(<<<<"a">>>>))),
      JObj(Field("messages", JStr(<<"a">>))),
      JArr(<<sMessages>>), JStr(sMessages), JNum(5) }

\* 'messages' in data: a key of a dict, an item of a list, a substring of a string
HasMessages(data) ==
    CASE data.k = "obj" -> "messages" \in DOMAIN data.f
      [] data.k = "arr" -> \E i \in 1..Len(data.a) : data.a[i] = sMessages
      [] data.k = "str" -> IsSubstring(sMessages, data.s)
      [] OTHER -> FALSE

\* `in` raises TypeError on a number
InRaises(data) == data.k = "num"

(* ---------------- the gateway's checks (api_generate, api_enhance) ---------------- *)
(* The statements before the upstream call: [status, error], status 0 when  *)
(* the call is issued.  data['messages'] of a list or a string raises       *)
(* TypeError inside the try, which catches only RequestException.           *)

Verdict(status, error) == [status |-> status, error |-> error]

\* the checks in the order "messages, then credential"
PrecheckValidateFirst(key, data) ==
    IF data = Malformed THEN Verdict(400, "BadRequest")
    ELSE IF ~Truthy(data) THEN Verdict(400, "")
    ELSE IF InRaises(data) THEN Verdict(500, "TypeError")
    ELSE IF ~HasMessages(data) THEN Verdict(400, "")
    ELSE IF key = "" THEN Verdict(500, "")
    ELSE IF data.k # "obj" THEN Verdict(500, "TypeError")
    ELSE Verdict(0, "")

Precheck(key, data) ==
    IF key = "" THEN Verdict(500, "")
    ELSE IF data = Malformed THEN Verdict(400, "BadRequest")
    ELSE IF ~Truthy(data) THEN Verdict(400, "")
    ELSE IF InRaises(data) THEN Verdict(500, "TypeError")
    ELSE IF ~HasMessages(data) THEN Verdict(400, "")
    ELSE IF data.k # "obj" THEN Verdict(500, "TypeError")
    ELSE Verdict(0, "")

(* What the upstream call does: the longest wait for the connection or for  *)
(* bytes, whether a connection was made, the status of the final response   *)
(* and whether its body parses as JSON.                                     *)
Outcome(wait, conn, status, json) ==
    [wait |-> wait, conn |-> conn, status |-> status, json |-> json]

NoOutcome == Outcome(0, FALSE, 0, FALSE)

UpstreamOutcomes ==
    { Outcome(1, TRUE, 200, TRUE), Outcome(1, TRUE, 201, TRUE),
      Outcome(1, TRUE, 200, FALSE), Outcome(1, TRUE, 300, TRUE),
      Outcome(1, TRUE, 404, TRUE), Outcome(1, TRUE, 503, FALSE),
      Outcome(UPSTREAM_TIMEOUT + 1, TRUE, 0, FALSE),
      Outcome(1, FALSE, 0, FALSE) }

\* resp.raise_for_status(): HTTPError for a 4xx or 5xx status, nothing otherwise
RaiseForStatus(status) == 400 <= status /\ status < 600

\* the try/except around the upstream call: the status the handler answers with
\* (Timeout: 504; any other RequestException, which HTTPError and the
\* JSONDecodeError of resp.json() are: 502)
UpstreamStatus(o) ==
    IF o.wait > UPSTREAM_TIMEOUT THEN 504
    ELSE IF ~o.conn THEN 502
    ELSE IF RaiseForStatus(o.status) THEN 502
    ELSE IF ~o.json THEN 502
    ELSE 200

(* ---------------- state ---------------- *)

VARIABLES
    apiKey,         \* OPENROUTER_API_KEY, read once at start
    file,           \* reviews.json
    initial,        \* reviews.json as it was when the server started
    now,            \* the wall clock, in milliseconds
    worker,         \* per worker thread: the request it is handling
    resp,           \* the request answered last, and its response
    acked,          \* the reviews answered with 201, in the order of the answers
    started,        \* requests accepted so far
    upstreamCalls   \* http_requests.post calls issued so far

vars == <<apiKey, file, initial, now, worker, resp, acked, started, upstreamCalls>>

Idle ==
    [pc |-> "idle", op |-> "none", req |-> 0, data |-> JNull, review |-> <<>>,
     reviews |-> <<>>]

\* a response: the request's number, endpoint and body; the status; the
\* exception behind a 4xx/5xx that no handler statement returns; for
\* GET /api/reviews the body (a list or not, and the list); for POST
\* /api/reviews the review; for the gateway what the upstream call did
Response(req, op, data, status, error) ==
    [req |-> req, op |-> op, data |-> data, status |-> status, error |-> error,
     islist |-> FALSE, list |-> <<>>, review |-> <<>>, up |-> NoOutcome]

\* a review already in the store when the server starts
OldReview ==
    [id |-> 0, name |-> <<"z">>, rating |-> 4, feedback |-> <<>>, timestamp |-> 0]

InitialFiles ==
    { File("absent", <<>>), File("ioerror", <<>>), File("badutf8", <<>>),
      File("garbage", <<>>), File("nonarray", <<>>),
      File("array", <<>>), File("array", <<OldReview>>) }

Init ==
    /\ apiKey \in {"", "sk"}
    /\ file \in InitialFiles
    /\ initial = file
    /\ now = MS_PER_SECOND - 1
    /\ worker = [w \in Workers |-> Idle]
    /\ resp = Response(0, "none", JNull, 0, "")
    /\ acked = <<>>
    /\ started = 0
    /\ upstreamCalls = 0

Accepts(w) == worker[w].pc = "idle" /\ started < MaxRequests

\* the handler returns (or raises): the response is sent and the worker is free
Answer(w, r) ==
    /\ resp' = r
    /\ worker' = [worker EXCEPT ![w] = Idle]

(* ---------------- GET /api/reviews ---------------- *)

get_reviews(w) ==
    /\ Accepts(w)
    /\ started' = started + 1
    /\ LET ld == LoadReviews(file)
       IN  IF ld.raises
           THEN Answer(w, Response(started + 1, "list", JNull, 500, "UnicodeDecodeError"))
           ELSE Answer(w, [Response(started + 1, "list", JNull, 200, "")
                              EXCEPT !.islist = ld.islist, !.list = ld.arr])
    /\ UNCHANGED <<apiKey, file, initial, now, acked, upstreamCalls>>

(* ---------------- POST /api/reviews ---------------- *)

\* post_review up to and including reviews.insert(0, review); dt is the time
\* that passed since the clock was last read
post_review(w, data, dt) ==
    /\ Accepts(w)
    /\ started' = started + 1
    /\ LET req == started + 1
           ld == LoadReviews(file)
           review == MakeReview(data, now + dt)
       IN  IF data = Malformed
           THEN Answer(w, Response(req, "post", data, 400, "BadRequest")) /\ now' = now
           ELSE IF ~Truthy(data)
           THEN Answer(w, Response(req, "post", data, 400, "")) /\ now' = now
           ELSE IF ReviewRaises(data)
           THEN Answer(w, Response(req, "post", data, 500, "ReviewRaises")) /\ now' = now
           ELSE IF ld.raises
           THEN /\ Answer(w, Response(req, "post", data, 500, "UnicodeDecodeError"))
                /\ now' = now + dt
           ELSE IF ~ld.islist
           THEN /\ Answer(w, Response(req, "post", data, 500, "AttributeError"))
                /\ now' = now + dt
           ELSE /\ now' = now + dt
                /\ worker' = [worker EXCEPT ![w] =
                      [Idle EXCEPT !.pc = "open", !.op = "post", !.req = req,
                                   !.data = data, !.review = <<review>>,
                                   !.reviews = InsertHead(ld.arr, review)]]
                /\ resp' = resp
    /\ UNCHANGED <<apiKey, file, initial, acked, upstreamCalls>>

\* _save_reviews: open(REVIEWS_FILE, 'w') empties the file, or raises
save_open(w, ok) ==
    /\ worker[w].pc = "open"
    /\ IF ok
       THEN /\ file' = File("truncated", <<>>)
            /\ worker' = [worker EXCEPT ![w].pc = "dump"]
            /\ resp' = resp
       ELSE /\ file' = file
            /\ Answer(w, Response(worker[w].req, "post", worker[w].data, 500, "IOError"))
    /\ UNCHANGED <<apiKey, initial, now, acked, started, upstreamCalls>>

\* _save_reviews: json.dump and the close that flushes it; then the 201
save_dump(w) ==
    /\ worker[w].pc = "dump"
    /\ file' = File("array", worker[w].reviews)
    /\ Answer(w, [Response(worker[w].req, "post", worker[w].data, 201, "")
                     EXCEPT !.review = worker[w].review])
    /\ acked' = acked \o worker[w].review
    /\ UNCHANGED <<apiKey, initial, now, started, upstreamCalls>>

(* ---------------- POST /api/generate, /api/enhance ---------------- *)

Forward(w, op, data) ==
    /\ Accepts(w)
    /\ started' = started + 1
    /\ LET v == Precheck(apiKey, data)
       IN  IF v.status # 0
           THEN /\ Answer(w, Response(started + 1, op, data, v.status, v.error))
                /\ upstreamCalls' = upstreamCalls
           ELSE /\ worker' = [worker EXCEPT ![w] =
                      [Idle EXCEPT !.pc = "upstream", !.op = op, !.req = started + 1,
                                   !.data = data]]
                /\ upstreamCalls' = upstreamCalls + 1
                /\ resp' = resp
    /\ UNCHANGED <<apiKey, file, initial, now, acked>>

api_generate(w, data) == Forward(w, "generate", data)

api_enhance(w, data) == Forward(w, "enhance", data)

\* the upstream call returns or raises, and the handler answers
upstream_done(w, o) ==
    /\ worker[w].pc = "upstream"
    /\ Answer(w, [Response(worker[w].req, worker[w].op, worker[w].data,
                           UpstreamStatus(o), "") EXCEPT !.up = o])
    /\ UNCHANGED <<apiKey, file, initial, now, acked, started, upstreamCalls>>

(* ---------------- specifications ---------------- *)

ClockSteps == {0, 1}

StoreNext ==
    \/ \E w \in Workers : get_reviews(w)
    \/ \E w \in Workers, data \in ReviewBodies, dt \in ClockSteps : post_review(w, data, dt)
    \/ \E w \in Workers, ok \in BOOLEAN : save_open(w, ok)
    \/ \E w \in Workers : save_dump(w)

GatewayNext ==
    \/ \E w \in Workers, data \in AiBodies : api_generate(w, data)
    \/ \E w \in Workers, data \in AiBodies : api_enhance(w, data)
    \/ \E w \in Workers, o \in UpstreamOutcomes : upstream_done(w, o)

Next == StoreNext \/ GatewayNext

\* every endpoint, requests handled on several threads at once
Spec == Init /\ [][Next]_vars

\* The store never reads the credential, and the gateway never reads the file:
\* the specifications of one component start with the other's part fixed.
StoreInit == Init /\ apiKey = "sk"

\* the review store, requests handled on several threads at once
StoreSpec == StoreInit /\ [][StoreNext]_vars

\* the gateway, requests handled on several threads at once
GatewaySpec == Init /\ [][GatewayNext]_vars

(* A server with a single worker thread: a request is accepted only when the *)
(* one before it has been answered.                                          *)

SerialStoreNext ==
    \/ get_reviews(1)
    \/ \E data \in ReviewBodies, dt \in ClockSteps : post_review(1, data, dt)
    \/ \E ok \in BOOLEAN : save_open(1, ok)
    \/ save_dump(1)

\* the review store, requests handled one after another
SerialStoreSpec == StoreInit /\ [][SerialStoreNext]_vars

SerialGatewayNext ==
    \/ \E data \in AiBodies : api_generate(1, data)
    \/ \E data \in AiBodies : api_enhance(1, data)
    \/ \E o \in UpstreamOutcomes : upstream_done(1, o)

\* the gateway, requests handled one after another
SerialGatewaySpec == Init /\ [][SerialGatewayNext]_vars

(* ---------------- properties ---------------- *)

RECURSIVE Reverse(_)
Reverse(s) == IF s = <<>> THEN <<>> ELSE Reverse(Tail(s)) \o <<Head(s)>>

Contains(list, x) == \E j \in 1..Len(list) : list[j] = x

AiOps == {"generate", "enhance"}

\* this step answers a GET /api/reviews
ListAnswered == resp' # resp /\ resp'.op = "list"

\* this step runs _load_reviews: for a list, or for an append that goes on to save
LoadStep ==
    \/ ListAnswered
    \/ \E w \in Workers : worker[w].pc = "idle" /\ worker'[w].pc = "open"

\* no _save_reviews is between its open and its dump
NoSaveInProgress == \A w \in Workers : worker[w].pc # "dump"

\* C1: every GET /api/reviews answered after a review was answered with 201
\* returns a collection that contains that review, with its five fields, whatever
\* the interleaving of the appends before it (stated for the lists that run
\* while no save is in progress, the claim's easiest case)
C1_RoundTripEveryInterleaving ==
    [][(ListAnswered /\ NoSaveInProgress) =>
          \A i \in 1..Len(acked) : Contains(resp'.list, acked[i])]_vars

\* C2: over a store that starts as a valid array S, with appends handled one
\* after another, the store holds and list() returns the acknowledged reviews
\* newest first, followed by S in its order; an append puts its review at index
\* 0 of what it loaded and changes none of it
C2_NewestFirst ==
    initial.kind = "array" =>
        /\ worker[1].pc = "idle" => file = File("array", Reverse(acked) \o initial.arr)
        /\ worker[1].pc # "idle" =>
              worker[1].reviews = worker[1].review \o Reverse(acked) \o initial.arr
        /\ resp.op = "list" =>
              /\ resp.status = 200
              /\ resp.islist
              /\ resp.list = Reverse(acked) \o initial.arr

\* two different reviews were appended to a non-empty store, and then listed
C2_Witness ==
    /\ initial.arr # <<>>
    /\ Len(acked) = 2
    /\ acked[1] # acked[2]
    /\ resp.op = "list"
    /\ Len(resp.list) = 3

\* C3: with no credential, every POST to /api/generate and /api/enhance is
\* answered 500 whatever its body, no upstream call is issued, and the review
\* store is as it was
C3_NoCredential ==
    apiKey = "" =>
        /\ upstreamCalls = 0
        /\ \A w \in Workers : worker[w].pc # "upstream"
        /\ resp.op \in AiOps => resp.status = 500 /\ resp.up = NoOutcome
        /\ file = initial

\* without a credential, a body with no messages field was answered 500
C3_Witness ==
    /\ apiKey = ""
    /\ resp.op = "enhance"
    /\ resp.data = JObj(NoFields)
    /\ resp.status = 500

\* the body is an object whose messages field holds a sequence
MessagesIsSequence(data) ==
    /\ data.k = "obj"
    /\ "messages" \in DOMAIN data.f
    /\ data.f["messages"].k = "arr"

\* C4: with a credential, a body without a messages field, or whose messages is
\* not a sequence, is answered 400 without an upstream call; a call is issued
\* only for a messages field that holds a sequence
C4_MessagesValidated ==
    apiKey # "" =>
        /\ \A w \in Workers :
              worker[w].pc = "upstream" => MessagesIsSequence(worker[w].data)
        /\ (resp.op \in AiOps /\ ~MessagesIsSequence(resp.data)) =>
              resp.status = 400 /\ resp.up = NoOutcome

\* the status the claim gives an upstream outcome
ClaimedStatus(o) ==
    IF o.wait > UPSTREAM_TIMEOUT THEN 504
    ELSE IF o.conn /\ o.status \in 200..299 /\ o.json THEN 200
    ELSE 502

\* C5: a request that reaches the upstream call is answered 200 when the call
\* succeeds with a 2xx status and a parseable body, 504 when it exceeds the
\* deadline, 502 for every other outcome; never more than one call per request
C5_UpstreamOutcome ==
    /\ upstreamCalls <= started
    /\ resp.up # NoOutcome => resp.status = ClaimedStatus(resp.up)

\* C6: the rating of every stored review is an integer in [1, 5]; for an integer
\* input r it is min(5, max(1, r)), and 5 when the submission has no rating
C6_RatingClamp ==
    /\ \A i \in 1..Len(file.arr) : file.arr[i].rating \in 1..5
    /\ (resp.op = "post" /\ resp.status = 201) =>
          LET r == resp.review[1]
              d == resp.data
          IN  /\ r.rating \in 1..5
              /\ "rating" \notin DOMAIN d.f => r.rating = 5
              /\ ("rating" \in DOMAIN d.f /\ d.f["rating"].k = "num") =>
                    r.rating = IF d.f["rating"].n < 1 THEN 1
                               ELSE IF d.f["rating"].n > 5 THEN 5
                               ELSE d.f["rating"].n
              /\ file.kind = "array" => Head(file.arr) = r

\* a submission with rating 0 was stored with rating 1
C6_Witness ==
    /\ resp.op = "post"
    /\ resp.status = 201
    /\ "rating" \in DOMAIN resp.data.f
    /\ resp.data.f["rating"] = JNum(0)
    /\ resp.review[1].rating = 1
    /\ file.kind = "array"

\* the submission's name is absent, null, empty or only whitespace
NameBlank(data) ==
    LET v == Get(data, "name")
    IN  v.k = "null" \/ (v.k = "str" /\ \A i \in 1..Len(v.s) : v.s[i] = " ")

\* C7: a stored review's name is "Anonymous" when the submission's name is
\* absent, empty or blank, the trimmed name otherwise, and never empty
C7_NamePlaceholder ==
    (resp.op = "post" /\ resp.status = 201) =>
        LET r == resp.review[1]
        IN  /\ NameBlank(resp.data) => r.name = sAnonymous
            /\ ~NameBlank(resp.data) => r.name = Strip(Get(resp.data, "name").s)
            /\ r.name # <<>>

\* C8: whatever reviews.json holds, list() answers 200 with the stored array, or
\* with the empty sequence when the content is not a valid array; and an append
\* over content that is not a valid array is answered 201 and leaves exactly the
\* new review in the store
C8_PermissiveRead ==
    /\ resp.op = "list" =>
          /\ resp.status = 200
          /\ resp.islist
          /\ worker[1].pc = "idle" =>
                resp.list = IF file.kind = "array" THEN file.arr ELSE <<>>
    /\ (resp.op = "post" /\ resp.data \in GoodReviewBodies /\ resp.error # "IOError") =>
          resp.status = 201
    /\ (initial.kind # "array" /\ Len(acked) = 1 /\ worker[1].pc = "idle") =>
          file = File("array", acked)

NonEmptyObject(data) == data.k = "obj" /\ DOMAIN data.f # {}

\* C9: a POST /api/reviews whose body is not a non-empty object is answered 400
\* and does not reach normalisation or storage
C9_AppendPrecondition ==
    /\ \A w \in Workers : worker[w].pc # "idle" => NonEmptyObject(worker[w].data)
    /\ (resp.op = "post" /\ ~NonEmptyObject(resp.data)) =>
          resp.status = 400 /\ resp.review = <<>>

\* C10: no load, of a list() or of another append, reads reviews.json while an
\* append has it emptied and not yet rewritten
C10_AtomicReplacement == [][LoadStep => file.kind # "truncated"]_vars

====
